---- MODULE Spec2Model ----
(***************************************************************************)
(* State-reconciliation polling protocol of the placement group and subnet *)
(* resource managers: the Poller (resource.StateChangeConf.WaitForState),  *)
(* the status probes and the resource lifecycle controllers.               *)
(*                                                                         *)
(* Time is counted in ticks of one minute.  A controller invocation is a   *)
(* sequence of steps, one per provider call; the provider makes progress   *)
(* between the steps.                                                      *)
(***************************************************************************)
EXTENDS FiniteSets, Integers, Naturals, Sequences, TLC

VARIABLES
    res,    \* the resource the run is about: "poller", "pg", "subnet", "delete"
    op,     \* the controller invocation in progress or last finished
    pc,     \* position inside the invocation ("idle", a step name, "done")
    ret,    \* what the last finished invocation returned
    wait,   \* the StateChangeConf of the current wait and its loop state
    d,      \* schema.ResourceData of the resource
    prov,   \* provider-side state of the resource
    hist    \* history of the current invocation (calls issued, responses)

vars == <<res, op, pc, ret, wait, d, prov, hist>>

\* ------------------------------------------------------------------ bounds
MaxDelay == 2          \* longest pause between two probes, in ticks
MaxPollTimeout == 3    \* longest timeout of the stand-alone Poller runs

\* ------------------------------------------------------------- the Poller
NoErr == "none"

\* one probe result: (status, error); the payload is nil exactly when the
\* status is empty in every probe of this repository
Outcome(status, err) == [status |-> status, err |-> err]

NoWait ==
    [pending |-> {}, target |-> {}, timeout |-> 0, elapsed |-> 0, probes |-> 0,
     last |-> Outcome("", NoErr), outcome |-> "idle", errState |-> ""]

\* resource.StateChangeConf{Pending, Target, Refresh, Timeout}
StateChangeConf(pending, target, timeout) ==
    [NoWait EXCEPT !.pending = pending, !.target = target,
                   !.timeout = timeout, !.outcome = "running"]

PollDecision_NoUnexpected(w, o) ==
    IF o.err # NoErr THEN "probe_error"
    ELSE IF o.status \in w.target THEN "success"
    ELSE "continue"

PollDecision_TargetAfterPending(w, o) ==
    IF o.err # NoErr THEN "probe_error"
    ELSE IF o.status = "" THEN "continue"
    ELSE IF o.status \in w.target /\ w.probes >= 1 THEN "success"
    ELSE IF o.status \in w.pending \/ o.status \in w.target THEN "continue"
    ELSE "unexpected"

\* the Poller's decision on one probe result
PollDecision(w, o) ==
    IF o.err # NoErr THEN "probe_error"
    ELSE IF o.status = "" THEN "continue"
    ELSE IF o.status \in w.target THEN "success"
    ELSE IF o.status \in w.pending THEN "continue"
    ELSE "unexpected"

\* the pause after a probe that did not end the wait
Backoff(delay) == delay

\* one round of WaitForState: the probe returned o, the next pause is delay
WaitForState(w, o, delay) ==
    LET dec == PollDecision(w, o)
        w1  == [w EXCEPT !.probes = @ + 1, !.last = o]
    IN  IF dec = "continue"
        THEN [w1 EXCEPT !.elapsed = @ + Backoff(delay)]
        ELSE [w1 EXCEPT !.outcome = dec,
                        !.errState = IF dec = "unexpected" THEN o.status ELSE ""]

\* a probe is invoked immediately, then until the timeout elapses
CanProbe(w) == w.outcome = "running" /\ (w.probes = 0 \/ w.elapsed < w.timeout)

DeadlinePassed(w) == w.outcome = "running" /\ w.probes > 0 /\ w.elapsed >= w.timeout

\* the timeout error carries the last observed status
WaitTimeout(w) == [w EXCEPT !.outcome = "timeout", !.errState = w.last.status]

WaitFailed(w) == w.outcome \in {"probe_error", "unexpected", "timeout"}

Delays == 1..MaxDelay

\* -------------------------------------------------------- history record
\* calls: provider calls issued by the current invocation; probeCalls: the
\* value of calls right after the last probe; seen: what the describe calls
\* of the current wait reported; first: the first call's response; read:
\* the response to the final read's describe call
Apis == {"create", "describe", "modify", "disassociate", "associate", "delete"}

NewHist ==
    [calls |-> 0, probeCalls |-> 0, first |-> "none", read |-> "none",
     firstSeen |-> "none", last |-> "none",
     seen |-> [pending |-> 0, target |-> 0, empty |-> 0, other |-> 0],
     api |-> [a \in Apis |-> 0],
     old |-> 0, disCall |-> "none", disWait |-> NoWait, oldAtAssoc |-> "none",
     track |-> 0, after |-> "none", assocCall |-> "none", assocAt |-> 0]

\* one provider call of the given api was issued
Issued(h, a) == [h EXCEPT !.calls = @ + 1, !.api[a] = @ + 1]

\* the first provider call of an invocation and its response
Called(h, a, resp) == [Issued(h, a) EXCEPT !.first = resp]

\* one probe of a wait issued a call of api a and got a response of class
\* cls ("pending", "target", "empty" or "other")
Probed(h, a, cls) ==
    [Issued(h, a) EXCEPT !.probeCalls = h.calls + 1,
                         !.firstSeen = IF h.firstSeen = "none" THEN cls ELSE @,
                         !.seen = [@ EXCEPT ![cls] = @ + 1]]

\* a new wait starts: forget what the previous wait saw
Waiting(h) ==
    [h EXCEPT !.firstSeen = "none", !.last = "none", !.seen = NewHist.seen]

\* how the pending and target sets of a wait see a probe result
OutcomeClass(w, o) ==
    IF o.err # NoErr THEN "other"
    ELSE IF o.status = "" THEN "empty"
    ELSE IF o.status \in w.target THEN "target"
    ELSE IF o.status \in w.pending THEN "pending"
    ELSE "other"

Idle == pc \in {"idle", "done"}

\* ---------------------------------------------- stand-alone Poller runs
PollStatuses == {"pending", "available", "deleted"}
PollErrors == {NoErr, "error"}
PollSets == SUBSET PollStatuses \ {{}}

PollInit ==
    /\ res = "poller"
    /\ op = "Poll"
    /\ pc = "wait"
    /\ ret = "none"
    /\ \E P \in PollSets, T \in PollSets, t \in 1..MaxPollTimeout :
           wait = StateChangeConf(P, T, t)
    /\ d = "none"
    /\ prov = "none"
    /\ hist = NewHist

PollRefresh ==
    /\ res = "poller"
    /\ op = "Poll" /\ pc = "wait" /\ CanProbe(wait)
    /\ \E s \in PollStatuses \cup {""}, e \in PollErrors, delay \in Delays :
         LET w == WaitForState(wait, Outcome(s, e), delay) IN
           /\ wait' = w
           /\ hist' = Probed(hist, "describe", OutcomeClass(wait, Outcome(s, e)))
           /\ pc' = IF w.outcome = "running" THEN "wait" ELSE "done"
           /\ ret' = IF w.outcome = "success" THEN "ok"
                     ELSE IF WaitFailed(w) THEN "error" ELSE ret
    /\ UNCHANGED <<res, op, d, prov>>

PollTimeout ==
    /\ res = "poller"
    /\ op = "Poll" /\ pc = "wait" /\ DeadlinePassed(wait)
    /\ wait' = WaitTimeout(wait)
    /\ pc' = "done"
    /\ ret' = "error"
    /\ UNCHANGED <<res, op, d, prov, hist>>

PollNext == PollRefresh \/ PollTimeout

SpecPoller == PollInit /\ [][PollNext]_vars

\* ======================================================= Placement Group
PGNames == {"pg-1", "pg-2"}
PGStrategies == {"cluster", "spread"}

PGTimeout == 5

NoGroup == [state |-> "absent", name |-> "", strategy |-> ""]

\* what DescribePlacementGroups may answer: an error, the error code
\* InvalidPlacementGroup.Unknown, zero groups, or the group
DescribePlacementGroups(p, name) ==
    {[kind |-> k, state |-> "", name |-> "", strategy |-> ""] :
         k \in {"error", "unknown", "empty"}}
    \cup (IF p.state # "absent" /\ p.name = name
          THEN {[kind |-> "found", state |-> p.state, name |-> p.name,
                 strategy |-> p.strategy]}
          ELSE {})

PGCreateRefresh_EmptyIsPending(out) ==
    IF out.kind \in {"error", "unknown"} THEN Outcome("", out.kind)
    ELSE IF out.kind = "empty" THEN Outcome("", NoErr)
    ELSE Outcome(out.state, NoErr)

PGCreateRefresh_NoStateCheck(out) ==
    IF out.kind \in {"error", "unknown"} THEN Outcome("", out.kind)
    ELSE IF out.kind = "empty" THEN Outcome("", "notfound")
    ELSE Outcome("available", NoErr)

\* Refresh closure of the creation wait
PGCreateRefresh(out) ==
    IF out.kind \in {"error", "unknown"} THEN Outcome("", out.kind)
    ELSE IF out.kind = "empty" THEN Outcome("", "notfound")
    ELSE Outcome(out.state, NoErr)

PGDeleteRefresh_UnknownIsError(out) ==
    IF out.kind \in {"unknown", "error"} THEN Outcome("", "error")
    ELSE IF out.kind = "empty" THEN Outcome("deleted", NoErr)
    ELSE Outcome(out.state, NoErr)

\* Refresh closure of the deletion wait
PGDeleteRefresh(out) ==
    IF out.kind = "unknown" THEN Outcome("deleted", NoErr)
    ELSE IF out.kind = "error" THEN Outcome("", "error")
    ELSE IF out.kind = "empty" THEN Outcome("deleted", NoErr)
    ELSE Outcome(out.state, NoErr)

PGCreateWait == StateChangeConf({"pending"}, {"available"}, PGTimeout)

PGDeleteWait == StateChangeConf({"deleting"}, {"deleted"}, PGTimeout)

SeenClass(w, out) ==
    IF out.kind # "found" THEN "other"
    ELSE IF out.state \in w.target THEN "target"
    ELSE IF out.state \in w.pending THEN "pending"
    ELSE "other"

PGInit ==
    /\ res = "pg"
    /\ op = "none"
    /\ pc = "idle"
    /\ ret = "none"
    /\ wait = NoWait
    /\ hist = NewHist
    /\ \E n \in PGNames, s \in PGStrategies :
         \/ /\ d = [id |-> "", name |-> n, strategy |-> s]
            /\ prov = NoGroup
         \/ \E ps \in PGStrategies :
              /\ d = [id |-> n, name |-> n, strategy |-> s]
              /\ prov = [state |-> "available", name |-> n, strategy |-> ps]

\* conn.CreatePlacementGroup and the construction of the wait
PGCreate_CreatePlacementGroup ==
    /\ res = "pg"
    /\ Idle /\ d.id = ""
    /\ op' = "PGCreate"
    /\ \E resp \in {"ok", "error"} :
         /\ resp = "ok" => prov.state \in {"absent", "deleted"}
         /\ hist' = Called(NewHist, "create", resp)
         /\ IF resp = "ok"
            THEN /\ prov' = [state |-> "pending", name |-> d.name,
                             strategy |-> d.strategy]
                 /\ wait' = PGCreateWait
                 /\ pc' = "create_wait"
                 /\ ret' = "none"
            ELSE /\ pc' = "done"
                 /\ ret' = "error"
                 /\ wait' = NoWait
                 /\ UNCHANGED prov
    /\ UNCHANGED <<res, d>>

PGCreateAfterWait_ErrIgnored(w) ==
    IF w.outcome = "running" THEN "create_wait" ELSE "read"

\* where Create goes after a round of the wait: err != nil returns err,
\* otherwise d.SetId(name) and Read
PGCreateAfterWait(w) ==
    IF w.outcome = "running" THEN "create_wait"
    ELSE IF w.outcome = "success" THEN "read" ELSE "done"

PGCreateSetId_BeforeWait(dd, w) == [dd EXCEPT !.id = dd.name]

\* d.SetId(name) is reached only when wait.WaitForState() returned no error
PGCreateSetId(dd, w) ==
    IF w.outcome = "success" THEN [dd EXCEPT !.id = dd.name] ELSE dd

\* one round of wait.WaitForState() in Create; d.SetId(name) on success
PGCreate_Refresh ==
    /\ res = "pg"
    /\ op = "PGCreate" /\ pc = "create_wait" /\ CanProbe(wait)
    /\ \E out \in DescribePlacementGroups(prov, d.name), delay \in Delays :
         LET w == WaitForState(wait, PGCreateRefresh(out), delay) IN
           /\ wait' = w
           /\ hist' = [Probed(hist, "describe", SeenClass(wait, out))
                         EXCEPT !.last = out.kind]
           /\ pc' = PGCreateAfterWait(w)
           /\ ret' = IF WaitFailed(w) THEN "error" ELSE ret
           /\ d' = PGCreateSetId(d, w)
    /\ UNCHANGED <<res, op, prov>>

PGCreate_Timeout ==
    /\ res = "pg"
    /\ op = "PGCreate" /\ pc = "create_wait" /\ DeadlinePassed(wait)
    /\ wait' = WaitTimeout(wait)
    /\ pc' = "done"
    /\ ret' = "error"
    /\ UNCHANGED <<res, op, d, prov, hist>>

\* the body of Read: describe by identifier, PlacementGroups[0], d.Set
PGRead_Describe ==
    /\ res = "pg"
    /\ \E out \in DescribePlacementGroups(prov, d.id) :
         /\ hist' = [Issued(hist, "describe") EXCEPT !.read = out.kind]
         /\ pc' = "done"
         /\ IF out.kind \in {"error", "unknown"}
            THEN ret' = "error" /\ UNCHANGED d
            ELSE IF out.kind = "empty"
            THEN ret' = "panic" /\ UNCHANGED d
            ELSE /\ ret' = "ok"
                 /\ d' = [d EXCEPT !.name = out.name, !.strategy = out.strategy]
    /\ UNCHANGED <<res, op, wait, prov>>

\* Read chained from Create
PGCreate_Read == op = "PGCreate" /\ pc = "read" /\ PGRead_Describe

resourceAwsPlacementGroupCreate ==
    \/ PGCreate_CreatePlacementGroup
    \/ PGCreate_Refresh
    \/ PGCreate_Timeout
    \/ PGCreate_Read

\* Read invoked on its own
resourceAwsPlacementGroupRead ==
    /\ res = "pg"
    /\ Idle /\ d.id # ""
    /\ \E out \in DescribePlacementGroups(prov, d.id) :
         /\ op' = "PGRead"
         /\ hist' = [Called(NewHist, "describe", out.kind) EXCEPT !.read = out.kind]
         /\ pc' = "done"
         /\ wait' = NoWait
         /\ IF out.kind \in {"error", "unknown"}
            THEN ret' = "error" /\ UNCHANGED d
            ELSE IF out.kind = "empty"
            THEN ret' = "panic" /\ UNCHANGED d
            ELSE /\ ret' = "ok"
                 /\ d' = [d EXCEPT !.name = out.name, !.strategy = out.strategy]
    /\ UNCHANGED <<res, prov>>

PGDeleteCallFailed_UnknownTolerated(resp) == resp = "error"

\* err != nil after conn.DeletePlacementGroup: any error, the code
\* InvalidPlacementGroup.Unknown included, is returned
PGDeleteCallFailed(resp) == resp # "ok"

\* conn.DeletePlacementGroup and the construction of the wait
PGDelete_DeletePlacementGroup ==
    /\ res = "pg"
    /\ Idle /\ d.id # ""
    /\ op' = "PGDelete"
    /\ \E resp \in {"ok", "unknown", "error"} :
         /\ resp = "ok" => (prov.state \in {"pending", "available"} /\ prov.name = d.id)
         /\ resp = "unknown" => (prov.state \in {"absent", "deleted"} \/ prov.name # d.id)
         /\ hist' = Called(NewHist, "delete", resp)
         /\ IF ~PGDeleteCallFailed(resp)
            THEN /\ prov' = IF resp = "ok" THEN [prov EXCEPT !.state = "deleting"]
                            ELSE prov
                 /\ wait' = PGDeleteWait
                 /\ pc' = "delete_wait"
                 /\ ret' = "none"
            ELSE /\ pc' = "done"
                 /\ ret' = "error"
                 /\ wait' = NoWait
                 /\ UNCHANGED prov
    /\ UNCHANGED <<res, d>>

\* one round of wait.WaitForState() in Delete; Delete returns its error
PGDelete_Refresh ==
    /\ res = "pg"
    /\ op = "PGDelete" /\ pc = "delete_wait" /\ CanProbe(wait)
    /\ \E out \in DescribePlacementGroups(prov, d.id), delay \in Delays :
         LET w == WaitForState(wait, PGDeleteRefresh(out), delay) IN
           /\ wait' = w
           /\ hist' = [Probed(hist, "describe", SeenClass(wait, out))
                         EXCEPT !.last = out.kind]
           /\ pc' = IF w.outcome = "running" THEN "delete_wait" ELSE "done"
           /\ ret' = IF w.outcome = "success" THEN "ok"
                     ELSE IF WaitFailed(w) THEN "error" ELSE ret
           \* a resource whose Delete returned nil is dropped from the state
           /\ d' = IF w.outcome = "success" THEN [d EXCEPT !.id = ""] ELSE d
    /\ UNCHANGED <<res, op, prov>>

PGDelete_Timeout ==
    /\ res = "pg"
    /\ op = "PGDelete" /\ pc = "delete_wait" /\ DeadlinePassed(wait)
    /\ wait' = WaitTimeout(wait)
    /\ pc' = "done"
    /\ ret' = "error"
    /\ UNCHANGED <<res, op, d, prov, hist>>

resourceAwsPlacementGroupDelete ==
    \/ PGDelete_DeletePlacementGroup
    \/ PGDelete_Refresh
    \/ PGDelete_Timeout

\* the provider completes a creation or a deletion on its own schedule
PGProviderProgress ==
    /\ res = "pg"
    /\ prov.state \in {"pending", "deleting", "deleted"}
    /\ prov' = IF prov.state = "pending" THEN [prov EXCEPT !.state = "available"]
               ELSE IF prov.state = "deleting" THEN [prov EXCEPT !.state = "deleted"]
               ELSE NoGroup
    /\ UNCHANGED <<res, op, pc, ret, wait, d, hist>>

PGNext ==
    \/ resourceAwsPlacementGroupCreate
    \/ resourceAwsPlacementGroupRead
    \/ resourceAwsPlacementGroupDelete
    \/ PGProviderProgress

SpecPG == PGInit /\ [][PGNext]_vars

\* ================================================================ Subnet
SubnetId == "subnet-1"
Blocks == {"X", "Y"}

MaxAssocs == 3          \* associations the provider creates in one run

CreateTimeoutDefault == 10
AssocTimeout == 3

NoSubnet ==
    [exists |-> FALSE, state |-> "", assocs |-> <<>>, nextId |-> 1,
     mapPublic |-> FALSE, assignIpv6 |-> FALSE]

ZeroState == [ipv6 |-> "", assocId |-> 0, mapPublic |-> FALSE, assignIpv6 |-> FALSE]

Configs == [ipv6 : Blocks \cup {""}, mapPublic : BOOLEAN, assignIpv6 : BOOLEAN]

\* the configurations an invocation of Update may come with: the one of the
\* previous invocation, or, in a run where the configuration is edited,
\* that one with ipv6_cidr_block changed from block X to block Y
EditedConfigs(dd) ==
    {dd.cfg} \cup (IF dd.edit /\ dd.cfg.ipv6 = "X"
                   THEN {[dd.cfg EXCEPT !.ipv6 = "Y"]} ELSE {})

\* d.HasChange(key): the prior state against the configuration; an Optional
\* and Computed attribute missing from the configuration shows no change
HasChange(dd, key) ==
    IF key = "ipv6_cidr_block"
    THEN dd.cfg.ipv6 # "" /\ dd.cfg.ipv6 # dd.st.ipv6
    ELSE IF key = "map_public_ip_on_launch"
    THEN dd.cfg.mapPublic # dd.st.mapPublic
    ELSE dd.cfg.assignIpv6 # dd.st.assignIpv6

\* the state saved when a handler returns an error in partial mode: only
\* the keys passed to d.SetPartial take their new value
ApplyPartial(dd) ==
    [dd.st EXCEPT
       !.ipv6 = IF "ipv6_cidr_block" \in dd.partial /\ dd.cfg.ipv6 # ""
                THEN dd.cfg.ipv6 ELSE @,
       !.mapPublic = IF "map_public_ip_on_launch" \in dd.partial
                     THEN dd.cfg.mapPublic ELSE @,
       !.assignIpv6 = IF "assign_ipv6_address_on_creation" \in dd.partial
                      THEN dd.cfg.assignIpv6 ELSE @]

\* the state saved when a handler returns an error outside partial mode:
\* the whole configuration counts as applied
ApplyDiff(dd) ==
    [dd.st EXCEPT
       !.ipv6 = IF dd.cfg.ipv6 # "" THEN dd.cfg.ipv6 ELSE @,
       !.mapPublic = dd.cfg.mapPublic,
       !.assignIpv6 = dd.cfg.assignIpv6]

\* what DescribeSubnets may answer: an error, the error code
\* InvalidSubnetID.NotFound (also while the subnet is not visible yet), or
\* the subnet; the client never returns a nil response without an error
DescribeSubnets(p) ==
    {[kind |-> k, state |-> "", assocs |-> <<>>, mapPublic |-> FALSE,
      assignIpv6 |-> FALSE] : k \in {"error", "notfound"}}
    \cup (IF p.exists
          THEN {[kind |-> "found", state |-> p.state, assocs |-> p.assocs,
                 mapPublic |-> p.mapPublic, assignIpv6 |-> p.assignIpv6]}
          ELSE {})

SubnetStateRefreshFunc_NotFoundIsError(resp) ==
    IF resp.kind \in {"error", "notfound"} THEN Outcome("", "error")
    ELSE Outcome(resp.state, NoErr)

SubnetStateRefreshFunc(resp) ==
    IF resp.kind = "error" THEN Outcome("", "error")
    ELSE IF resp.kind = "notfound" THEN Outcome("", NoErr)
    ELSE Outcome(resp.state, NoErr)

\* the linear scan of Ipv6CidrBlockAssociationSet for associationId
RECURSIVE ScanAssociations(_, _, _)
ScanAssociations(assocs, i, associationId) ==
    IF i > Len(assocs) THEN ""
    ELSE IF assocs[i].id = associationId THEN assocs[i].state
    ELSE ScanAssociations(assocs, i + 1, associationId)

SubnetIpv6CidrStateRefreshFunc_NotFoundIsError(resp, associationId) ==
    IF resp.kind \in {"error", "notfound"} THEN Outcome("", "error")
    ELSE IF resp.assocs = <<>> THEN Outcome("", NoErr)
    ELSE Outcome(ScanAssociations(resp.assocs, 1, associationId), NoErr)

SubnetIpv6CidrStateRefreshFunc(resp, associationId) ==
    IF resp.kind = "error" THEN Outcome("", "error")
    ELSE IF resp.kind = "notfound" THEN Outcome("", NoErr)
    ELSE IF resp.assocs = <<>> THEN Outcome("", NoErr)
    ELSE Outcome(ScanAssociations(resp.assocs, 1, associationId), NoErr)

\* the loop of Read over Ipv6CidrBlockAssociationSet: the first association
\* in state associated, with break
RECURSIVE FirstAssociated(_, _)
FirstAssociated(assocs, i) ==
    IF i > Len(assocs) THEN [id |-> 0, block |-> ""]
    ELSE IF assocs[i].state = "associated"
    THEN [id |-> assocs[i].id, block |-> assocs[i].block]
    ELSE FirstAssociated(assocs, i + 1)

\* the attributes Read stores with d.Set
ReadAttributes(resp) ==
    LET a == FirstAssociated(resp.assocs, 1) IN
    [ipv6 |-> a.block, assocId |-> a.id,
     mapPublic |-> resp.mapPublic, assignIpv6 |-> resp.assignIpv6]

SubnetCreateWait == StateChangeConf({"pending"}, {"available"}, CreateTimeoutDefault)

DisassociateWait ==
    StateChangeConf({"disassociating", "associated"}, {"disassociated"}, AssocTimeout)

AssociateWait ==
    StateChangeConf({"associating", "disassociated"}, {"associated"}, AssocTimeout)

NumAssociated(assocs) ==
    Cardinality({i \in 1..Len(assocs) : assocs[i].state = "associated"})

SubnetStart(edit) ==
    /\ res = "subnet"
    /\ op = "none"
    /\ pc = "idle"
    /\ ret = "none"
    /\ wait = NoWait
    /\ hist = NewHist
    /\ \E c \in Configs :
         \/ /\ d = [id |-> "", isNew |-> FALSE, cfg |-> c, st |-> ZeroState,
                    partial |-> {}, tainted |-> FALSE, edit |-> edit]
            /\ prov = NoSubnet
         \/ \E b \in Blocks \cup {""} :
              LET as == IF b = "" THEN <<>>
                        ELSE <<[id |-> 1, block |-> b, state |-> "associated"]>>
              IN
              /\ prov = [NoSubnet EXCEPT !.exists = TRUE, !.state = "available",
                                         !.assocs = as,
                                         !.nextId = Len(as) + 1]
              /\ d = [id |-> SubnetId, isNew |-> FALSE, cfg |-> c,
                      st |-> [ZeroState EXCEPT !.ipv6 = b,
                                               !.assocId = Len(as)],
                      partial |-> {}, tainted |-> FALSE, edit |-> edit]

\* the configuration stays the same for the whole run
SubnetInit == SubnetStart(FALSE)

\* the configuration may be edited between two invocations
SubnetEditInit == SubnetStart(TRUE)

\* how the creation wait sees a describe response
SubnetSeen(w, resp) ==
    IF resp.kind = "error" THEN "other"
    ELSE IF resp.kind = "notfound" THEN "empty"
    ELSE OutcomeClass(w, Outcome(resp.state, NoErr))

\* how an association wait sees a describe response
\* what a describe response holds for the tracked association: the kind of
\* a response without a subnet, "absent" when no entry has the id, else the
\* state of the entry
AssociationResponse(resp, associationId) ==
    IF resp.kind # "found" THEN resp.kind
    ELSE LET e == {resp.assocs[i].state :
                      i \in {j \in DOMAIN resp.assocs :
                                resp.assocs[j].id = associationId}}
         IN  IF e = {} THEN "absent" ELSE CHOOSE x \in e : TRUE

AssociationSeen(w, resp, associationId) ==
    IF resp.kind = "error" THEN "other"
    ELSE IF resp.kind = "notfound" THEN "empty"
    ELSE OutcomeClass(w, Outcome(ScanAssociations(resp.assocs, 1, associationId), NoErr))

\* the position Update reaches after setTags, after the first
\* ModifySubnetAttribute and after the reassociation
AfterReassociation(dd) ==
    IF HasChange(dd, "assign_ipv6_address_on_creation") THEN "modify_assign"
    ELSE "read"

AfterMapPublicIp_IgnoresNewResource(dd) ==
    IF HasChange(dd, "ipv6_cidr_block")
    THEN (IF dd.st.assocId # 0 THEN "disassociate" ELSE "associate")
    ELSE AfterReassociation(dd)

AfterMapPublicIp_NoDisassociate(dd) ==
    IF HasChange(dd, "ipv6_cidr_block") /\ ~dd.isNew
    THEN "associate"
    ELSE AfterReassociation(dd)

AfterMapPublicIp(dd) ==
    IF HasChange(dd, "ipv6_cidr_block") /\ ~dd.isNew
    THEN (IF dd.st.assocId # 0 THEN "disassociate" ELSE "associate")
    ELSE AfterReassociation(dd)

AfterSetTags(dd) ==
    IF HasChange(dd, "map_public_ip_on_launch") THEN "modify_map"
    ELSE AfterMapPublicIp(dd)

\* conn.CreateSubnet, d.SetId and the construction of the wait
SubnetCreate_CreateSubnet ==
    /\ res = "subnet"
    /\ Idle /\ d.id = ""
    /\ op' = "SubnetCreate"
    /\ \E resp \in {"ok", "error"} :
         /\ resp = "ok" => (~prov.exists /\ prov.nextId <= MaxAssocs)
         /\ hist' = Called(NewHist, "create", resp)
         /\ IF resp = "ok"
            THEN /\ prov' = [prov EXCEPT
                       !.exists = TRUE, !.state = "pending",
                       !.assocs = IF d.cfg.ipv6 = "" THEN <<>>
                                  ELSE <<[id |-> prov.nextId, block |-> d.cfg.ipv6,
                                          state |-> "associating"]>>,
                       !.nextId = IF d.cfg.ipv6 = "" THEN @ ELSE @ + 1,
                       !.mapPublic = FALSE, !.assignIpv6 = FALSE]
                 /\ d' = [d EXCEPT !.id = SubnetId, !.isNew = TRUE,
                                   !.st = ZeroState, !.partial = {},
                                   !.tainted = FALSE]
                 /\ wait' = SubnetCreateWait
                 /\ pc' = "create_wait"
                 /\ ret' = "none"
            ELSE /\ pc' = "done"
                 /\ ret' = "error"
                 /\ wait' = NoWait
                 /\ UNCHANGED <<prov, d>>
    /\ UNCHANGED res

\* where Create goes after a round of the wait: err != nil returns the
\* wrapped error, otherwise Update is called
SubnetCreateAfterWait_ErrIgnored(w) ==
    IF w.outcome = "running" THEN "create_wait" ELSE "set_tags"

SubnetCreateAfterWait(w) ==
    IF w.outcome = "running" THEN "create_wait"
    ELSE IF w.outcome = "success" THEN "set_tags" ELSE "done"

\* one round of stateConf.WaitForState() in Create
SubnetCreate_Refresh ==
    /\ res = "subnet"
    /\ op = "SubnetCreate" /\ pc = "create_wait" /\ CanProbe(wait)
    /\ \E resp \in DescribeSubnets(prov), delay \in Delays :
         LET w == WaitForState(wait, SubnetStateRefreshFunc(resp), delay) IN
           /\ wait' = w
           /\ hist' = Probed(hist, "describe", SubnetSeen(wait, resp))
           /\ pc' = SubnetCreateAfterWait(w)
           /\ ret' = IF WaitFailed(w) THEN "error" ELSE ret
           /\ d' = IF WaitFailed(w) THEN [d EXCEPT !.st = ApplyDiff(d)] ELSE d
    /\ UNCHANGED <<res, op, prov>>

SubnetCreate_Timeout ==
    /\ res = "subnet"
    /\ op = "SubnetCreate" /\ pc = "create_wait" /\ DeadlinePassed(wait)
    /\ wait' = WaitTimeout(wait)
    /\ pc' = "done"
    /\ ret' = "error"
    /\ d' = [d EXCEPT !.st = ApplyDiff(d)]
    /\ UNCHANGED <<res, op, prov, hist>>

InUpdate == res = "subnet" /\ op \in {"SubnetCreate", "SubnetUpdate"}

\* a subnet whose Create returned an error after d.SetId is kept for
\* replacement: it is read and deleted, never updated
Tainted == d.tainted \/ (op = "SubnetCreate" /\ ret = "error" /\ d.id # "")

\* d.Partial(true) and setTags
SetTags(dd) ==
    \E resp \in {"ok", "error"} :
       IF resp = "ok"
       THEN /\ d' = [dd EXCEPT !.partial = {"tags"}]
            /\ pc' = AfterSetTags(dd)
            /\ ret' = "none"
       ELSE /\ d' = [dd EXCEPT !.st = ApplyPartial(dd)]
            /\ pc' = "done"
            /\ ret' = "error"

\* Update called by Create: return resourceAwsSubnetUpdate(d, meta)
SubnetCreate_Update ==
    /\ res = "subnet"
    /\ op = "SubnetCreate" /\ pc = "set_tags"
    /\ SetTags(d)
    /\ UNCHANGED <<res, op, wait, prov, hist>>

\* Update invoked on an existing subnet, with the configuration of this
\* invocation
SubnetUpdate_SetTags ==
    /\ res = "subnet"
    /\ Idle /\ d.id # "" /\ ~Tainted
    /\ op' = "SubnetUpdate"
    /\ \E c \in EditedConfigs(d) :
         /\ SetTags([d EXCEPT !.cfg = c, !.isNew = FALSE, !.partial = {}])
         /\ hist' = [NewHist EXCEPT !.after =
                        IF /\ op \in {"SubnetCreate", "SubnetUpdate"}
                           /\ ret = "ok" /\ c = d.cfg
                        THEN op ELSE "none"]
    /\ wait' = NoWait
    /\ UNCHANGED <<res, prov>>

\* conn.ModifySubnetAttribute for either attribute
ModifySubnetAttribute(key, next) ==
    \E resp \in {"ok", "error"} :
       /\ resp = "ok" => prov.exists
       /\ hist' = Issued(hist, "modify")
       /\ IF resp = "ok"
          THEN /\ prov' = IF key = "map_public_ip_on_launch"
                          THEN [prov EXCEPT !.mapPublic = d.cfg.mapPublic]
                          ELSE [prov EXCEPT !.assignIpv6 = d.cfg.assignIpv6]
               /\ d' = [d EXCEPT !.partial = @ \cup {key}]
               /\ pc' = next
               /\ ret' = ret
          ELSE /\ d' = [d EXCEPT !.st = ApplyPartial(d)]
               /\ pc' = "done"
               /\ ret' = "error"
               /\ UNCHANGED prov

SubnetUpdate_ModifyMapPublicIp ==
    /\ InUpdate /\ pc = "modify_map"
    /\ ModifySubnetAttribute("map_public_ip_on_launch", AfterMapPublicIp(d))
    /\ UNCHANGED <<res, op, wait>>

SubnetUpdate_ModifyAssignIpv6 ==
    /\ InUpdate /\ pc = "modify_assign"
    /\ ModifySubnetAttribute("assign_ipv6_address_on_creation", "read")
    /\ UNCHANGED <<res, op, wait>>

SetAssociationState(assocs, id, st) ==
    [i \in 1..Len(assocs) |->
        IF assocs[i].id = id THEN [assocs[i] EXCEPT !.state = st] ELSE assocs[i]]

\* conn.DisassociateSubnetCidrBlock and the construction of the wait
SubnetUpdate_Disassociate ==
    /\ InUpdate /\ pc = "disassociate"
    /\ \E resp \in {"ok", "error"} :
         /\ resp = "ok" =>
              ScanAssociations(prov.assocs, 1, d.st.assocId)
                  \in {"associating", "associated"}
         /\ IF resp = "ok"
            THEN /\ prov' = [prov EXCEPT !.assocs =
                       SetAssociationState(@, d.st.assocId, "disassociating")]
                 /\ wait' = DisassociateWait
                 /\ pc' = "dis_wait"
                 /\ ret' = ret
                 /\ hist' = Waiting([Issued(hist, "disassociate") EXCEPT
                               !.old = d.st.assocId, !.disCall = resp])
                 /\ UNCHANGED d
            ELSE /\ d' = [d EXCEPT !.st = ApplyPartial(d)]
                 /\ pc' = "done"
                 /\ ret' = "error"
                 /\ hist' = [Issued(hist, "disassociate") EXCEPT
                               !.old = d.st.assocId, !.disCall = resp]
                 /\ UNCHANGED <<prov, wait>>
    /\ UNCHANGED <<res, op>>

\* one round of the wait for disassociated
SubnetUpdate_DisassociateRefresh ==
    /\ InUpdate /\ pc = "dis_wait" /\ CanProbe(wait)
    /\ \E resp \in DescribeSubnets(prov), delay \in Delays :
         LET w == WaitForState(wait,
                     SubnetIpv6CidrStateRefreshFunc(resp, d.st.assocId), delay)
         IN
           /\ wait' = w
           /\ hist' = [Probed(hist, "describe",
                                AssociationSeen(wait, resp, d.st.assocId))
                         EXCEPT !.last = AssociationResponse(resp, d.st.assocId)]
           /\ pc' = IF w.outcome = "running" THEN "dis_wait"
                    ELSE IF w.outcome = "success" THEN "associate" ELSE "done"
           /\ ret' = IF WaitFailed(w) THEN "error" ELSE ret
           /\ d' = IF WaitFailed(w) THEN [d EXCEPT !.st = ApplyPartial(d)] ELSE d
    /\ UNCHANGED <<res, op, prov>>

\* a failed AssociateSubnetCidrBlock: return err, with no attempt to
\* reassociate the old block
AfterAssociateError(dd) == "done"

\* conn.AssociateSubnetCidrBlock and the construction of the wait
SubnetUpdate_Associate ==
    /\ InUpdate /\ pc = "associate"
    /\ \E resp \in {"ok", "error"} :
         /\ resp = "ok" => (prov.exists /\ prov.nextId <= MaxAssocs)
         /\ LET h == [Issued(hist, "associate") EXCEPT
                        !.old = d.st.assocId,
                        !.disWait = IF d.st.assocId # 0 THEN wait ELSE NoWait,
                        !.oldAtAssoc = ScanAssociations(prov.assocs, 1, d.st.assocId),
                        !.assocCall = resp,
                        !.assocAt = hist.calls + 1]
            IN
            IF resp = "ok"
            THEN /\ prov' = [prov EXCEPT
                       !.assocs = Append(@, [id |-> prov.nextId,
                                             block |-> d.cfg.ipv6,
                                             state |-> "associating"]),
                       !.nextId = @ + 1]
                 /\ wait' = AssociateWait
                 /\ pc' = "assoc_wait"
                 /\ ret' = ret
                 /\ hist' = Waiting([h EXCEPT !.track = prov.nextId])
                 /\ UNCHANGED d
            ELSE /\ d' = [d EXCEPT !.st = ApplyPartial(d)]
                 /\ pc' = AfterAssociateError(d)
                 /\ ret' = "error"
                 /\ hist' = h
                 /\ UNCHANGED <<prov, wait>>
    /\ UNCHANGED <<res, op>>

\* one round of the wait for associated; d.SetPartial("ipv6_cidr_block")
SubnetUpdate_AssociateRefresh ==
    /\ InUpdate /\ pc = "assoc_wait" /\ CanProbe(wait)
    /\ \E resp \in DescribeSubnets(prov), delay \in Delays :
         LET w == WaitForState(wait,
                     SubnetIpv6CidrStateRefreshFunc(resp, hist.track), delay)
         IN
           /\ wait' = w
           /\ hist' = [Probed(hist, "describe",
                                AssociationSeen(wait, resp, hist.track))
                         EXCEPT !.last = AssociationResponse(resp, hist.track)]
           /\ pc' = IF w.outcome = "running" THEN "assoc_wait"
                    ELSE IF w.outcome = "success" THEN AfterReassociation(d)
                    ELSE "done"
           /\ ret' = IF WaitFailed(w) THEN "error" ELSE ret
           /\ d' = IF WaitFailed(w) THEN [d EXCEPT !.st = ApplyPartial(d)]
                   ELSE IF w.outcome = "success"
                   THEN [d EXCEPT !.partial = @ \cup {"ipv6_cidr_block"}]
                   ELSE d
    /\ UNCHANGED <<res, op, prov>>

\* either association wait runs out of time
SubnetUpdate_Timeout ==
    /\ InUpdate /\ pc \in {"dis_wait", "assoc_wait"} /\ DeadlinePassed(wait)
    /\ wait' = WaitTimeout(wait)
    /\ pc' = "done"
    /\ ret' = "error"
    /\ d' = [d EXCEPT !.st = ApplyPartial(d)]
    /\ UNCHANGED <<res, op, prov, hist>>

\* the body of Read on the response of DescribeSubnets
ReadSubnet_AnyErrorClearsId(dd, resp) ==
    IF resp.kind \in {"notfound", "error"}
    THEN [dd EXCEPT !.id = "", !.st = ZeroState, !.tainted = FALSE]
    ELSE [dd EXCEPT !.st = ReadAttributes(resp)]

ReadSubnet(dd, resp) ==
    IF resp.kind = "notfound"
    THEN [dd EXCEPT !.id = "", !.st = ZeroState, !.tainted = FALSE]
    ELSE IF resp.kind = "found"
    THEN [dd EXCEPT !.st = ReadAttributes(resp)]
    ELSE dd

\* d.Partial(false) and return resourceAwsSubnetRead(d, meta)
SubnetUpdate_Read ==
    /\ InUpdate /\ pc = "read"
    /\ \E resp \in DescribeSubnets(prov) :
         /\ hist' = [Issued(hist, "describe") EXCEPT !.read = resp.kind]
         /\ pc' = "done"
         /\ ret' = IF resp.kind = "error" THEN "error" ELSE "ok"
         /\ d' = IF resp.kind = "error" THEN [d EXCEPT !.st = ApplyDiff(d)]
                 ELSE ReadSubnet(d, resp)
    /\ UNCHANGED <<res, op, wait, prov>>

resourceAwsSubnetCreate ==
    \/ SubnetCreate_CreateSubnet
    \/ SubnetCreate_Refresh
    \/ SubnetCreate_Timeout
    \/ SubnetCreate_Update

resourceAwsSubnetUpdate ==
    \/ SubnetUpdate_SetTags
    \/ SubnetUpdate_ModifyMapPublicIp
    \/ SubnetUpdate_Disassociate
    \/ SubnetUpdate_DisassociateRefresh
    \/ SubnetUpdate_Associate
    \/ SubnetUpdate_AssociateRefresh
    \/ SubnetUpdate_Timeout
    \/ SubnetUpdate_ModifyAssignIpv6
    \/ SubnetUpdate_Read

\* Read invoked on its own
resourceAwsSubnetRead ==
    /\ res = "subnet"
    /\ Idle /\ d.id # ""
    /\ \E resp \in DescribeSubnets(prov) :
         /\ op' = "SubnetRead"
         /\ hist' = [Called(NewHist, "describe", resp.kind) EXCEPT !.read = resp.kind]
         /\ pc' = "done"
         /\ wait' = NoWait
         /\ ret' = IF resp.kind = "error" THEN "error" ELSE "ok"
         /\ d' = ReadSubnet([d EXCEPT !.isNew = FALSE, !.partial = {},
                                       !.tainted = Tainted], resp)
    /\ UNCHANGED <<res, prov>>

RemoveAt(seq, i) ==
    [j \in 1..(Len(seq) - 1) |-> IF j < i THEN seq[j] ELSE seq[j + 1]]

\* the provider completes a creation, an association or a disassociation on
\* its own schedule, and forgets a disassociated association
SubnetProviderProgress ==
    /\ res = "subnet"
    /\ prov.exists
    /\ \/ /\ prov.state = "pending"
          /\ prov' = [prov EXCEPT !.state = "available"]
       \/ \E i \in 1..Len(prov.assocs) :
            \/ /\ prov.assocs[i].state = "associating"
               /\ prov' = [prov EXCEPT !.assocs[i].state = "associated"]
            \/ /\ prov.assocs[i].state = "disassociating"
               /\ prov' = [prov EXCEPT !.assocs[i].state = "disassociated"]
            \/ /\ prov.assocs[i].state = "disassociated"
               /\ prov' = [prov EXCEPT !.assocs = RemoveAt(@, i)]
    /\ UNCHANGED <<res, op, pc, ret, wait, d, hist>>

SubnetNext ==
    \/ resourceAwsSubnetCreate
    \/ resourceAwsSubnetUpdate
    \/ resourceAwsSubnetRead
    \/ SubnetProviderProgress

SpecSubnet == SubnetInit /\ [][SubnetNext]_vars

SpecSubnetEdit == SubnetEditInit /\ [][SubnetNext]_vars

\* ========================================================= Subnet Delete
DeleteTimeoutDefault == 32
DeleteTimeoutThreshold == 20
DeleteTimeoutFloor == 34

\* the values d.Timeout(schema.TimeoutDelete) takes in the runs: the
\* default and caller-configured values around the threshold
DeleteTimeouts == {DeleteTimeoutThreshold - 1, DeleteTimeoutThreshold,
                   DeleteTimeoutThreshold + 1, DeleteTimeoutDefault}

LocTimeout_StrictlyBelow(t) ==
    IF t < DeleteTimeoutThreshold THEN DeleteTimeoutFloor ELSE t

\* locTimeout
LocTimeout(t) == IF t <= DeleteTimeoutThreshold THEN DeleteTimeoutFloor ELSE t

\* what DeleteSubnet may answer
DeleteSubnet(p) ==
    {"error"}
    \cup (IF p.exists /\ p.deps THEN {"DependencyViolation"} ELSE {})
    \cup (IF p.exists /\ ~p.deps THEN {"ok"} ELSE {})
    \cup (IF ~p.exists THEN {"InvalidSubnetID.NotFound"} ELSE {})

SubnetDeleteRefresh_NoDependencyCase(resp) ==
    IF resp = "ok" THEN Outcome("destroyed", NoErr)
    ELSE IF resp = "InvalidSubnetID.NotFound" THEN Outcome("destroyed", NoErr)
    ELSE Outcome("failure", "error")

SubnetDeleteRefresh_SuccessPending(resp) ==
    IF resp = "ok" THEN Outcome("pending", NoErr)
    ELSE IF resp = "DependencyViolation" THEN Outcome("pending", NoErr)
    ELSE IF resp = "InvalidSubnetID.NotFound" THEN Outcome("destroyed", NoErr)
    ELSE Outcome("failure", "error")

\* Refresh closure of the delete loop, after conn.DeleteSubnet(req)
SubnetDeleteRefresh(resp) ==
    IF resp = "ok" THEN Outcome("destroyed", NoErr)
    ELSE IF resp = "DependencyViolation" THEN Outcome("pending", NoErr)
    ELSE IF resp = "InvalidSubnetID.NotFound" THEN Outcome("destroyed", NoErr)
    ELSE Outcome("failure", "error")

SubnetDeleteWait_NoFloor(t) == StateChangeConf({"pending"}, {"destroyed"}, t)

SubnetDeleteWait(t) == StateChangeConf({"pending"}, {"destroyed"}, LocTimeout(t))

DeleteSeen(resp) ==
    IF resp = "ok" THEN "target"
    ELSE IF resp = "DependencyViolation" THEN "pending"
    ELSE IF resp = "InvalidSubnetID.NotFound" THEN "empty"
    ELSE "other"

DeleteInit ==
    /\ res = "delete"
    /\ op = "none"
    /\ pc = "idle"
    /\ ret = "none"
    /\ wait = NoWait
    /\ hist = NewHist
    /\ \E t \in DeleteTimeouts : d = [id |-> SubnetId, timeoutDelete |-> t]
    /\ \E e \in BOOLEAN, dep \in BOOLEAN :
         /\ dep => e
         /\ prov = [exists |-> e, deps |-> dep]

\* deleteLingeringLambdaENIs, locTimeout and the construction of the wait
SubnetDelete_DeleteENIs ==
    /\ res = "delete"
    /\ Idle /\ d.id # ""
    /\ op' = "SubnetDelete"
    /\ hist' = NewHist
    /\ \E resp \in {"ok", "error"} :
         IF resp = "ok"
         THEN /\ \E dep \in {prov.deps, FALSE} : prov' = [prov EXCEPT !.deps = dep]
              /\ wait' = SubnetDeleteWait(d.timeoutDelete)
              /\ pc' = "delete_wait"
              /\ ret' = "none"
         ELSE /\ pc' = "done"
              /\ ret' = "error"
              /\ wait' = NoWait
              /\ UNCHANGED prov
    /\ UNCHANGED <<res, d>>

\* one round of wait.WaitForState(): the probe issues conn.DeleteSubnet
SubnetDelete_Refresh ==
    /\ res = "delete"
    /\ op = "SubnetDelete" /\ pc = "delete_wait" /\ CanProbe(wait)
    /\ \E resp \in DeleteSubnet(prov), delay \in Delays :
         LET w == WaitForState(wait, SubnetDeleteRefresh(resp), delay) IN
           /\ wait' = w
           /\ hist' = [Probed(hist, "delete", DeleteSeen(resp)) EXCEPT !.last = resp]
           /\ prov' = IF resp = "ok" THEN [prov EXCEPT !.exists = FALSE] ELSE prov
           /\ pc' = IF w.outcome = "running" THEN "delete_wait" ELSE "done"
           /\ ret' = IF w.outcome = "success" THEN "ok"
                     ELSE IF WaitFailed(w) THEN "error" ELSE ret
    /\ UNCHANGED <<res, op, d>>

SubnetDelete_Timeout ==
    /\ res = "delete"
    /\ op = "SubnetDelete" /\ pc = "delete_wait" /\ DeadlinePassed(wait)
    /\ wait' = WaitTimeout(wait)
    /\ pc' = "done"
    /\ ret' = "error"
    /\ UNCHANGED <<res, op, d, prov, hist>>

resourceAwsSubnetDelete ==
    \/ SubnetDelete_DeleteENIs
    \/ SubnetDelete_Refresh
    \/ SubnetDelete_Timeout

\* the dependent resources of the subnet go away on their own schedule
DeleteProviderProgress ==
    /\ res = "delete"
    /\ prov.exists /\ prov.deps
    /\ prov' = [prov EXCEPT !.deps = FALSE]
    /\ UNCHANGED <<res, op, pc, ret, wait, d, hist>>

DeleteNext == resourceAwsSubnetDelete \/ DeleteProviderProgress

SpecDelete == DeleteInit /\ [][DeleteNext]_vars

\* ============================================== all resources together
Init == PollInit \/ PGInit \/ SubnetInit \/ DeleteInit

Next == PollNext \/ PGNext \/ SubnetNext \/ DeleteNext

Spec == Init /\ [][Next]_vars

\* a running invocation takes its next step: the Poller's loop sleeps and
\* probes until it returns, and every provider call returns
SpecFair == Spec /\ WF_vars(Next)

\* ================================================================ claims
LastInTarget(w) == w.last.err = NoErr /\ w.last.status \in w.target

\* C1: a wait returns success only if the last probe it invoked returned a
\* status of the target set with no error, and it returns an error in every
\* other outcome; the controller then returns an error, and a stand-alone
\* Poller run reports success exactly when the wait succeeded.
C1_SuccessOnlyOnTarget ==
    /\ wait.outcome = "success" => (wait.probes > 0 /\ LastInTarget(wait))
    /\ WaitFailed(wait) => (~LastInTarget(wait) /\ pc = "done" /\ ret = "error")
    /\ (res = "poller" /\ pc = "done") => (ret = "ok" <=> wait.outcome = "success")

C1_Witness ==
    /\ res = "subnet" /\ op = "SubnetCreate"
    /\ wait.outcome = "success" /\ wait.probes >= 2
    /\ wait.last = Outcome("available", NoErr)

\* C2: in an Update of an existing subnet whose state holds an association
\* id, AssociateSubnetCidrBlock is issued only after the disassociate call
\* succeeded and the disassociation wait ended on status disassociated for
\* the old association, which is then disassociated (or already forgotten)
\* at the provider; after a failed disassociate call or a failed wait the
\* invocation is over and no associate call was issued.
C2_AssociateAfterDisassociated ==
    (res = "subnet" /\ op = "SubnetUpdate") =>
       /\ (hist.api["associate"] > 0 /\ hist.old # 0) =>
             /\ hist.api["disassociate"] = 1
             /\ hist.disCall = "ok"
             /\ hist.disWait.outcome = "success"
             /\ hist.disWait.last = Outcome("disassociated", NoErr)
             /\ hist.oldAtAssoc \in {"disassociated", ""}
       /\ hist.disCall = "error" => (hist.api["associate"] = 0 /\ pc = "done")
       /\ (hist.api["disassociate"] > 0 /\ hist.api["associate"] = 0 /\ WaitFailed(wait))
             => (pc = "done" /\ ret = "error")

C2_Witness ==
    /\ res = "subnet" /\ op = "SubnetUpdate"
    /\ hist.api["associate"] = 1 /\ hist.old # 0
    /\ hist.disWait.probes >= 2
    /\ hist.oldAtAssoc = "disassociated"

\* C3: at most one IPv6 CIDR association of the subnet is in status
\* associated, in every state reachable by Create, Update and Read.
C3_AtMostOneAssociated ==
    res = "subnet" => NumAssociated(prov.assocs) <= 1

\* C4: in the delete loop a DependencyViolation leaves the wait running on
\* status pending with no error, InvalidSubnetID.NotFound and a successful
\* call end it as success, any other error ends it as failure; every probe
\* is one DeleteSubnet call, and only a run of DependencyViolation answers
\* can end in a timeout.
C4_DeleteLoopErrors ==
    (res = "delete" /\ op = "SubnetDelete" /\ hist.last # "none") =>
       /\ hist.api["delete"] = wait.probes
       /\ IF wait.outcome = "timeout"
          THEN hist.last = "DependencyViolation"
          ELSE IF hist.last = "DependencyViolation"
          THEN /\ wait.outcome = "running" /\ pc = "delete_wait"
               /\ wait.last = Outcome("pending", NoErr)
          ELSE IF hist.last \in {"InvalidSubnetID.NotFound", "ok"}
          THEN wait.outcome = "success" /\ pc = "done" /\ ret = "ok"
          ELSE wait.outcome = "probe_error" /\ pc = "done" /\ ret = "error"

C4_Witness ==
    /\ res = "delete" /\ op = "SubnetDelete"
    /\ hist.last = "DependencyViolation"
    /\ wait.probes >= 2 /\ wait.outcome = "running"

\* C5: once DeleteSubnet has succeeded, Delete is over with success, and it
\* issued one DeleteSubnet call more than it got DependencyViolation answers.
C5_DeleteCallCount ==
    (res = "delete" /\ op = "SubnetDelete" /\ hist.seen.target >= 1) =>
       /\ pc = "done" /\ ret = "ok" /\ wait.outcome = "success"
       /\ hist.seen.target = 1 /\ hist.seen.other = 0 /\ hist.seen.empty = 0
       /\ hist.api["delete"] = hist.seen.pending + 1
       /\ wait.elapsed < wait.timeout

C5_Witness ==
    /\ res = "delete" /\ op = "SubnetDelete"
    /\ hist.seen.pending = 2 /\ hist.api["delete"] = 3
    /\ ret = "ok" /\ pc = "done"

\* C6: in Create, a first describe that reports the subnet as not found does
\* not end the wait, and once a describe has reported available the wait has
\* returned no error.
C6_EmptyThenAvailable ==
    (res = "subnet" /\ op = "SubnetCreate" /\ hist.firstSeen = "empty") =>
       /\ wait.probes = 1 => (wait.outcome = "running" /\ pc = "create_wait"
                              /\ wait.last = Outcome("", NoErr))
       /\ hist.seen.target >= 1 => (wait.outcome = "success" /\ pc # "create_wait"
                                    /\ wait.probes >= 2)
       /\ "" \notin wait.pending

C6_Witness ==
    /\ res = "subnet" /\ op = "SubnetCreate"
    /\ hist.firstSeen = "empty" /\ hist.seen.target = 1
    /\ wait.outcome = "success" /\ wait.probes = 2
    /\ pc = "done" /\ ret = "ok"

UnexpectedStatus(w) ==
    w.probes > 0 /\ w.last.err = NoErr /\ w.last.status \notin (w.pending \cup w.target)

\* C7 as stated: a probe that returns, with no error, a status outside the
\* pending and target sets stops the Poller with an error naming the status.
C7_AnyUnexpectedStops ==
    UnexpectedStatus(wait) =>
        (wait.outcome = "unexpected" /\ wait.errState = wait.last.status)

\* C7 as amended: a probe that returns, with no error, a non-empty status
\* outside the pending and target sets stops the Poller at that probe with an
\* error naming the status, whatever remains of the timeout; an empty status
\* does not stop it.
C7_NonEmptyUnexpectedStops ==
    /\ (UnexpectedStatus(wait) /\ wait.last.status # "") =>
          /\ wait.outcome = "unexpected" /\ wait.errState = wait.last.status
          /\ pc = "done" /\ ret = "error"
          /\ hist.calls = hist.probeCalls
    /\ (UnexpectedStatus(wait) /\ wait.last.status = "") =>
          wait.outcome \in {"running", "timeout"}

C7_Witness ==
    /\ wait.outcome = "unexpected" /\ wait.errState # ""
    /\ wait.probes >= 2 /\ wait.elapsed < wait.timeout

\* C8: a wait that times out does so once its deadline has passed (in Delete
\* the deadline is locTimeout), carries the last observed status, has seen
\* no target status and makes the controller fail; and every running wait
\* eventually stops.
C8_TimeoutAndTermination ==
    /\ [](wait.outcome = "timeout" =>
            /\ wait.elapsed >= wait.timeout
            /\ wait.errState = wait.last.status
            /\ wait.last.err = NoErr /\ wait.last.status \notin wait.target
            /\ hist.seen.target = 0
            /\ pc = "done" /\ ret = "error"
            /\ res = "delete" => wait.elapsed >= LocTimeout(d.timeoutDelete))
    /\ ((wait.outcome = "running") ~> (wait.outcome # "running"))

C8_Witness ==
    /\ res = "delete" /\ wait.outcome = "timeout"
    /\ wait.timeout = DeleteTimeoutFloor /\ d.timeoutDelete = DeleteTimeoutThreshold
    /\ wait.errState = "pending"

\* C9: after a probe error the wait is over at that probe, the controller has
\* returned an error and has issued no provider call after the probe.
C9_ProbeErrorStopsAll ==
    wait.outcome = "probe_error" =>
        /\ wait.last.err # NoErr
        /\ pc = "done" /\ ret = "error"
        /\ hist.calls = hist.probeCalls

C9_Witness ==
    /\ res = "pg" /\ op = "PGCreate"
    /\ wait.outcome = "probe_error" /\ wait.probes >= 2
    /\ pc = "done" /\ ret = "error"

\* C10: after a successful create call, the wait of Placement Group Create
\* succeeds exactly when a describe reported available, at the probe after
\* the n that reported pending; the identifier is then the group name, and
\* a final read that finds the group returns success with the provider's
\* name and strategy.
C10_CreateProbeCount ==
    (res = "pg" /\ op = "PGCreate" /\ hist.first = "ok") =>
       /\ hist.seen.target >= 1 <=> wait.outcome = "success"
       /\ wait.outcome = "success" =>
             /\ hist.seen.target = 1 /\ hist.seen.other = 0
             /\ wait.probes = hist.seen.pending + 1
             /\ pc \in {"read", "done"}
             /\ d.id \in PGNames /\ d.id = d.name
             /\ (pc = "done" /\ hist.read = "found") =>
                   /\ ret = "ok"
                   /\ prov.state # "absent" =>
                        (d.name = prov.name /\ d.strategy = prov.strategy)

C10_Witness ==
    /\ res = "pg" /\ op = "PGCreate" /\ pc = "done" /\ ret = "ok"
    /\ hist.seen.pending = 1 /\ wait.probes = 2
    /\ d.id = "pg-1" /\ d.name = "pg-1" /\ d.strategy = "cluster"
    /\ prov.name = "pg-1" /\ prov.strategy = "cluster"

\* C11: in the deletion wait of a placement group, a describe that returns
\* zero groups or fails with InvalidPlacementGroup.Unknown makes the probe
\* report deleted with no error, and Delete returns success at that probe;
\* any other describe error ends the wait and Delete with a failure.
C11_DeleteProbeAbsence ==
    (res = "pg" /\ op = "PGDelete" /\ hist.last # "none") =>
       /\ hist.last \in {"empty", "unknown"} =>
             /\ wait.last = Outcome("deleted", NoErr)
             /\ wait.outcome = "success" /\ pc = "done" /\ ret = "ok"
             /\ hist.calls = hist.probeCalls
       /\ hist.last = "error" =>
             /\ wait.last.err # NoErr
             /\ wait.outcome = "probe_error" /\ pc = "done" /\ ret = "error"

C11_Witness ==
    /\ res = "pg" /\ op = "PGDelete"
    /\ hist.last = "unknown" /\ hist.seen.pending >= 1
    /\ wait.outcome = "success" /\ ret = "ok"

\* C12: in the creation wait of a placement group, a describe that returns
\* zero groups is not taken as pending: the probe returns a not-found error,
\* the wait stops at that probe and Create fails.
C12_CreateProbeNotFound ==
    (res = "pg" /\ op = "PGCreate" /\ hist.last = "empty") =>
       /\ wait.last = Outcome("", "notfound")
       /\ wait.outcome = "probe_error"
       /\ wait.probes = hist.seen.pending + 1
       /\ pc = "done" /\ ret = "error"
       /\ hist.calls = hist.probeCalls

C12_Witness ==
    /\ res = "pg" /\ op = "PGCreate"
    /\ hist.last = "empty" /\ wait.probes = 1
    /\ wait.outcome = "probe_error" /\ ret = "error"
    /\ prov.state = "pending"

\* C13: the delete loop runs with a timeout of 34 minutes whenever the
\* configured delete timeout is at most 20 minutes, and with the configured
\* timeout whenever that is longer.
C13_DeleteTimeoutFloor ==
    (res = "delete" /\ op = "SubnetDelete" /\ wait.outcome # "idle") =>
       /\ d.timeoutDelete <= 20 => wait.timeout = 34
       /\ d.timeoutDelete > 20 => wait.timeout = d.timeoutDelete
       /\ wait.outcome = "timeout" => wait.elapsed >= wait.timeout
       /\ wait.outcome = "running" => wait.elapsed < wait.timeout + MaxDelay

C13_Witness ==
    /\ res = "delete" /\ op = "SubnetDelete"
    /\ d.timeoutDelete = 20 /\ wait.timeout = 34
    /\ wait.outcome = "running" /\ wait.elapsed > 20

\* C14: the Update called by Create on the new subnet issues no
\* DisassociateSubnetCidrBlock and no AssociateSubnetCidrBlock call and runs
\* no association wait, whether or not ipv6_cidr_block shows a change.
C14_NoReassociationOnCreate ==
    (res = "subnet" /\ op = "SubnetCreate") =>
       /\ hist.api["disassociate"] = 0 /\ hist.api["associate"] = 0
       /\ pc \notin {"disassociate", "dis_wait", "associate", "assoc_wait"}
       /\ wait.outcome # "idle" => wait.target = {"available"}
       /\ pc \notin {"idle", "done", "create_wait"} => d.isNew

C14_Witness ==
    /\ res = "subnet" /\ op = "SubnetCreate"
    /\ pc = "read" /\ d.isNew
    /\ HasChange(d, "ipv6_cidr_block")
    /\ prov.assocs # <<>>

\* C15: an Update invoked with the same configuration right after a
\* successful Update or a successful Create issues no ModifySubnetAttribute,
\* no DisassociateSubnetCidrBlock and no AssociateSubnetCidrBlock call.
C15_UpdateIdempotent ==
    (res = "subnet" /\ op = "SubnetUpdate" /\ hist.after # "none") =>
       /\ hist.api["modify"] = 0
       /\ hist.api["disassociate"] = 0
       /\ hist.api["associate"] = 0

\* C16: a wait whose first probe returned a status of the target set with
\* no error has succeeded, and it invoked the probe exactly once.
C16_FirstProbeTarget ==
    hist.firstSeen = "target" =>
       /\ wait.outcome = "success"
       /\ wait.probes = 1
       /\ LastInTarget(wait)
       /\ wait.elapsed = 0

C16_Witness ==
    /\ res = "poller" /\ hist.firstSeen = "target"
    /\ wait.probes = 1 /\ wait.outcome = "success" /\ wait.pending # {}

\* C17: the CIDR association probe returns the state of the tracked
\* association when the described subnet lists an entry with that id; it
\* returns an empty status and no error, so the wait goes on, when the
\* subnet is not found, the list is absent or no entry has the id; only
\* another describe error is returned as an error.
C17_AssociationProbe ==
    (res = "subnet" /\ hist.last # "none") =>
       /\ hist.last = "error" =>
             wait.last.err # NoErr /\ wait.outcome = "probe_error"
       /\ hist.last \in {"notfound", "absent"} =>
             /\ wait.last = Outcome("", NoErr)
             /\ wait.outcome \in {"running", "timeout"}
       /\ hist.last \notin {"error", "notfound", "absent"} =>
             wait.last = Outcome(hist.last, NoErr)

C17_Witness ==
    /\ res = "subnet" /\ pc = "dis_wait" /\ wait.probes >= 2
    /\ hist.last = "disassociating" /\ hist.seen.empty >= 1
    /\ wait.last = Outcome("disassociating", NoErr)

\* C18: Subnet Read issues one describe call; when the call fails with
\* InvalidSubnetID.NotFound, Read clears the identifier and returns success;
\* when it fails with another error, Read returns the error and leaves the
\* identifier and the stored attributes as they were.  The Read that ends
\* Update treats the two errors alike.
C18_ReadErrors ==
    [][/\ (res = "subnet" /\ Idle /\ op' = "SubnetRead" /\ prov' = prov) =>
             /\ hist'.calls = 1 /\ hist'.api["describe"] = 1
             /\ hist'.read = "notfound" => (d'.id = "" /\ ret' = "ok")
             /\ hist'.read = "error" =>
                   (ret' = "error" /\ d'.id = d.id /\ d'.st = d.st)
       /\ (InUpdate /\ pc = "read" /\ pc' = "done") =>
             /\ hist'.read = "notfound" => (d'.id = "" /\ ret' = "ok")
             /\ hist'.read = "error" => (ret' = "error" /\ d'.id = d.id)
      ]_vars

C18_Witness ==
    /\ res = "subnet" /\ op = "SubnetRead" /\ pc = "done"
    /\ hist.read = "notfound" /\ d.id = "" /\ ret = "ok"
    /\ hist.calls = 1 /\ d.st = ZeroState

\* C19: Placement Group Create sets the identifier only in the step in
\* which its wait observed available; when the create call fails, or the
\* wait ends by probe error, unexpected status or timeout, Create has
\* returned an error and the identifier is unset, whatever the provider holds.
C19_IdOnlyAfterAvailable ==
    /\ [](  (/\ res = "pg" /\ op = "PGCreate"
             /\ (hist.first = "error" \/ WaitFailed(wait)))
           => (pc = "done" /\ ret = "error" /\ d.id = ""))
    /\ [][(res = "pg" /\ op' = "PGCreate" /\ d'.id # d.id) =>
            /\ wait'.outcome = "success"
            /\ wait.outcome = "running"
            /\ wait'.last = Outcome("available", NoErr)
            /\ d'.id = d.name]_vars

C19_Witness ==
    /\ res = "pg" /\ op = "PGCreate" /\ pc = "done" /\ ret = "error"
    /\ wait.outcome = "timeout" /\ d.id = "" /\ prov.state = "pending"

\* C20: when Update disassociated the old association and the
\* AssociateSubnetCidrBlock call for the new block then failed, Update has
\* returned the error, the failed call is its last provider call (one
\* disassociation, one association attempt), and no association of the
\* subnet is in status associated.
C20_AssociateFailureLeavesNone ==
    (/\ res = "subnet" /\ op = "SubnetUpdate"
     /\ hist.old # 0 /\ hist.disCall = "ok" /\ hist.assocCall = "error") =>
       /\ pc = "done" /\ ret = "error"
       /\ hist.calls = hist.assocAt
       /\ hist.api["associate"] = 1 /\ hist.api["disassociate"] = 1
       /\ hist.disWait.outcome = "success"
       /\ NumAssociated(prov.assocs) = 0

\* C21: when the DeletePlacementGroup call of Delete fails, also with
\* InvalidPlacementGroup.Unknown for a group that is gone, Delete has
\* returned that error: it built no wait, invoked no probe, issued no other
\* call, and the identifier is kept.
C21_DeleteCallErrorReturned ==
    (res = "pg" /\ op = "PGDelete" /\ hist.first \in {"unknown", "error"}) =>
       /\ pc = "done" /\ ret = "error"
       /\ hist.calls = 1 /\ hist.api["delete"] = 1 /\ hist.api["describe"] = 0
       /\ wait = NoWait
       /\ d.id # ""

C21_Witness ==
    /\ res = "pg" /\ op = "PGDelete" /\ hist.first = "unknown"
    /\ prov.state \in {"absent", "deleted"}
    /\ pc = "done" /\ ret = "error" /\ hist.calls = 1 /\ d.id # ""

====
